---- MODULE Spec2Model ----
(***************************************************************************)
(* The faster-whisper worker of packages/otto/scripts/parakeet-worker.py:  *)
(* a single-threaded process that loads a model, announces readiness and   *)
(* then answers line-delimited JSON transcription requests one at a time.  *)
(*                                                                         *)
(* Strings the code trims, lower-cases or splits (model names, language    *)
(* tags, segment texts) are sequences of one-character strings; opaque     *)
(* strings (ids, paths, messages) are TLA+ strings.                        *)
(***************************************************************************)
EXTENDS Integers, Sequences, FiniteSets, TLC

VARIABLES
    pc,           \* position of the only thread
    env_model,    \* os.environ.get("OTTO_WHISPER_MODEL", "small")
    model,        \* self.model: None or the handle the engine returned
    model_name,   \* self.model_name: None or Str(name)
    raw_line,     \* the line last taken from sys.stdin
    normalized_path, \* the temp file of the request in flight, 0 when none
    stdout,       \* lines written by write_event, in order
    stderr,       \* lines written to sys.stderr, in order
    exit_code,    \* process exit status, NotExited while running
    tempFiles,    \* temp files (mkstemp) that exist on disk
    lines_read,   \* number of lines taken from sys.stdin
    accepted,     \* ids of the transcribe lines that passed the id check, in order
    loads,        \* number of WhisperModel(...) constructions attempted
    ensure_calls, \* number of ensure_model calls
    ensured,      \* resolved names of the last two ensure_model calls
    ffmpeg_runs,  \* number of subprocess.run(ffmpeg) calls
    transcribe_calls, \* number of self.model.transcribe(...) calls
    engine_call,  \* arguments of the self.model.transcribe(...) call in progress
    normalized_language \* transcribe_file's local, None outside transcribe_file

vars == <<pc, env_model, model, model_name, raw_line, normalized_path,
          stdout, stderr, exit_code, tempFiles, lines_read, accepted, loads,
          ensure_calls, ensured, ffmpeg_runs, transcribe_calls, engine_call,
          normalized_language>>

----------------------------------------------------------------------------
(* Bounds *)

MaxLines == 2

\* longest language tag drawn from TagChars
MaxTagLen == 4

----------------------------------------------------------------------------
(* Python / JSON values *)

None == [t |-> "none"]
Num == [t |-> "num"]
List == [t |-> "list"]
Str(s) == [t |-> "str", s |-> s]
Dict(event, id, audioFilePath, language, model_field) ==
    [t |-> "dict", event |-> event, id |-> id, audioFilePath |-> audioFilePath,
     language |-> language, model |-> model_field]

IsStr(v) == v.t = "str"
IsDict(v) == v.t = "dict"

\* str(v) as an f-string renders it
PyStr(v) ==
    CASE v.t = "none" -> "None"
      [] v.t = "num" -> "7"
      [] v.t = "list" -> "[]"
      [] OTHER -> v.s

\* dict.get(key): the field, None when absent
Get(v, key) == v[key]

----------------------------------------------------------------------------
(* Character strings *)

IsSpace(c) == c = " "

RECURSIVE LStrip(_)
LStrip(s) == IF s # <<>> /\ IsSpace(Head(s)) THEN LStrip(Tail(s)) ELSE s

RECURSIVE RStrip(_)
RStrip(s) ==
    IF s # <<>> /\ IsSpace(s[Len(s)]) THEN RStrip(SubSeq(s, 1, Len(s) - 1)) ELSE s

\* str.strip()
Strip(s) == RStrip(LStrip(s))

LowerChar(c) ==
    CASE c = "A" -> "a"
      [] c = "E" -> "e"
      [] c = "N" -> "n"
      [] c = "S" -> "s"
      [] c = "U" -> "u"
      [] OTHER -> c

\* str.lower()
Lower(s) == [i \in 1..Len(s) |-> LowerChar(s[i])]

RECURSIVE BeforeHyphen(_)
\* s.split("-", 1)[0]
BeforeHyphen(s) ==
    IF s = <<>> \/ Head(s) = "-" THEN <<>> ELSE <<Head(s)>> \o BeforeHyphen(Tail(s))

\* normalize_language without the split of line 28
normalize_language_whole_tag(value) ==
    IF ~IsStr(value) THEN None
    ELSE LET normalized == Lower(Strip(value.s))
         IN IF normalized = <<>> \/ normalized = <<"a", "u", "t", "o">>
            THEN None
            ELSE Str(normalized)

\* normalize_language(value)
normalize_language(value) ==
    IF ~IsStr(value) THEN None
    ELSE LET normalized == Lower(Strip(value.s))
         IN IF normalized = <<>> \/ normalized = <<"a", "u", "t", "o">>
            THEN None
            ELSE Str(BeforeHyphen(normalized))

----------------------------------------------------------------------------
(* The environment: configuration, files, input lines, engine outcomes *)

small == <<"s", "m", "a", "l", "l">>
large == <<"l", "a", "r", "g", "e">>

\* values of OTTO_WHISPER_MODEL ("small" when unset)
EnvModels == {small, large}

\* os.path.isfile(path)
isfile(path) == path \in {"/a.wav"}

Events == {None, Num, Str("ping")}
InvalidIds == {None, Num, Str("")}
ValidIds == {Str("r1"), Str("r2")}
BadPaths == {None, Num, Str("/missing.wav")}
GoodPaths == {Str("/a.wav")}
Languages == {None, Str(<<"a", "u", "t", "o">>), Str(<<"E", "N", "-", "U", "S">>)}
Models == {None, Num, Str(<<" ">>), Str(small), Str(<<" ">> \o large)}

Line(text, value) == [text |-> text, value |-> value]

BlankLines == {Line("blank", None)}
GarbageLines == {Line("garbage", None)}
NonDictLines == {Line("json", v) : v \in {None, Num, List, Str("x")}}
ShutdownLines == {Line("json", Dict(Str("shutdown"), None, None, None, None))}
OtherEventLines ==
    {Line("json", Dict(e, Str("r1"), Str("/a.wav"), None, None)) : e \in Events}
InvalidIdLines ==
    {Line("json", Dict(Str("transcribe"), i, Str("/a.wav"), None, Str(large))) :
        i \in InvalidIds}
BadPathLines ==
    {Line("json", Dict(Str("transcribe"), Str("r1"), p, None, m)) :
        p \in BadPaths, m \in {None, Str(large)}}
    \cup {Line("json", Dict(Str("transcribe"), Str("r2"), Str("/missing.wav"), None, None))}
RequestLines ==
    {Line("json", Dict(Str("transcribe"), Str("r1"), p, None, m)) :
        p \in GoodPaths, m \in Models}
    \cup {Line("json", Dict(Str("transcribe"), Str("r2"), p, l, None)) :
        p \in GoodPaths, l \in Languages}

Lines ==
    BlankLines \cup GarbageLines \cup NonDictLines \cup ShutdownLines
    \cup OtherEventLines \cup InvalidIdLines \cup BadPathLines \cup RequestLines

NoLine == Line("none", None)

\* texts the engine can yield for one segment
Silence == <<" ">>
Speech == <<" ", "a", " ">>

\* what iterating the engine's segments can yield
SegmentLists ==
    {<<>>, <<Silence>>, <<Silence, Silence>>, <<Speech>>, <<Speech, Silence, Speech>>}

\* what the engine can report as info.language
InfoLanguages == {None, Str(<<>>), Str(<<" ">>), Str(<<" ", "E", "N">>)}

\* stderr of a failed ffmpeg run, already stripped
FfmpegStderr == {"", "Invalid data found"}

NotExited == 0 - 1

----------------------------------------------------------------------------
(* Output *)

ReadyEvent == [event |-> "ready"]

ResultOk(id, text, language) ==
    [event |-> "result", id |-> id, ok |-> TRUE, text |-> text, language |-> language]

ResultError(id, error) ==
    [event |-> "result", id |-> id, ok |-> FALSE, error |-> error]

\* json.loads(line): the payload of the line being handled
payload == raw_line.value

\* request_id = payload.get("id")
request_id == Get(payload, "id")

\* write_event putting the line before the lines already written
write_event_first(event) == stdout' = <<event>> \o stdout

\* write_event(payload)
write_event(event) == stdout' = Append(stdout, event)

\* write_error(message)
write_error(message) == stderr' = Append(stderr, message)

Traceback == "Traceback (most recent call last)"

\* Crash with status 0
CrashStatusZero(before) ==
    /\ stderr' = before \o <<Traceback>>
    /\ exit_code' = 0
    /\ pc' = "exit"

\* the except clause of __main__: print the traceback, sys.exit(1)
Crash(before) ==
    /\ stderr' = before \o <<Traceback>>
    /\ exit_code' = 1
    /\ pc' = "exit"

\* ExitClean with the status of a failure
ExitFailure ==
    /\ pc' = "exit"
    /\ exit_code' = 1

\* main returns: __main__ falls off its end, status 0
ExitClean ==
    /\ pc' = "exit"
    /\ exit_code' = 0

----------------------------------------------------------------------------
(* WhisperWorker *)

\* the handle WhisperModel(resolved, ...) returns
Handle(resolved) == [loaded |-> resolved]

\* Resolve without the strip() of line 98
ResolveUntrimmed(requested_model) ==
    IF ~IsStr(requested_model) \/ Strip(requested_model.s) = <<>>
    THEN env_model
    ELSE requested_model.s

\* Resolve keeping the resident model when the request names none
ResolveKeepsResident(requested_model) ==
    IF ~IsStr(requested_model) \/ Strip(requested_model.s) = <<>>
    THEN IF IsStr(model_name) THEN model_name.s ELSE Strip(env_model)
    ELSE Strip(requested_model.s)

\* ensure_model, lines 95-98: the name to load
Resolve(requested_model) ==
    IF ~IsStr(requested_model) \/ Strip(requested_model.s) = <<>>
    THEN Strip(env_model)
    ELSE Strip(requested_model.s)

\* Resident without the cache: every call loads
NeverResident(resolved) == FALSE

\* ensure_model, line 99: the early return
Resident(resolved) == model # None /\ model_name = Str(resolved)

\* LoadRaises with the engine's exception swallowed
LoadNeverRaises(requested_model, load_ok) == FALSE

\* ensure_model raises: a load was needed and the engine failed
LoadRaises(requested_model, load_ok) ==
    ~Resident(Resolve(requested_model)) /\ ~load_ok

\* the window `ensured` keeps
LastTwo(names) ==
    IF Len(names) <= 2 THEN names ELSE SubSeq(names, Len(names) - 1, Len(names))

\* ensure_model recording the name before the load is known to succeed
ensure_model_name_first(requested_model, load_ok) ==
    LET resolved == Resolve(requested_model)
    IN /\ ensure_calls' = ensure_calls + 1
       /\ ensured' = LastTwo(Append(ensured, resolved))
       /\ IF Resident(resolved)
          THEN UNCHANGED <<model, model_name, loads>>
          ELSE /\ loads' = loads + 1
               /\ model_name' = Str(resolved)
               /\ IF load_ok
                  THEN model' = Handle(resolved)
                  ELSE UNCHANGED model

ensure_model(requested_model, load_ok) ==
    LET resolved == Resolve(requested_model)
    IN /\ ensure_calls' = ensure_calls + 1
       /\ ensured' = LastTwo(Append(ensured, resolved))
       /\ IF Resident(resolved)
          THEN UNCHANGED <<model, model_name, loads>>
          ELSE /\ loads' = loads + 1
               /\ IF load_ok
                  THEN /\ model' = Handle(resolved)
                       /\ model_name' = Str(resolved)
                  ELSE UNCHANGED <<model, model_name>>

LoadError == "model load failed"

\* __init__ (lines 66-92), and __main__ when it raises
WorkerInit ==
    /\ pc = "start"
    /\ \E imported \in BOOLEAN, load_ok \in BOOLEAN :
          IF ~imported
          THEN /\ Crash(Append(stderr, "Failed to import faster-whisper: no module"))
               /\ UNCHANGED <<model, model_name, loads, ensure_calls, ensured>>
          ELSE /\ ensure_model(Str(env_model), load_ok)
               /\ IF LoadRaises(Str(env_model), load_ok)
                  THEN Crash(stderr)
                  ELSE /\ pc' = "constructed"
                       /\ UNCHANGED <<stderr, exit_code>>
    /\ UNCHANGED <<env_model, raw_line, normalized_path, stdout, tempFiles,
                   lines_read, accepted, ffmpeg_runs, transcribe_calls, engine_call,
                   normalized_language>>

\* main, line 146
EmitReady ==
    /\ pc = "constructed"
    /\ write_event(ReadyEvent)
    /\ pc' = "read"
    /\ UNCHANGED <<env_model, model, model_name, raw_line, normalized_path, stderr,
                   exit_code, tempFiles, lines_read, accepted, loads, ensure_calls, ensured,
                   ffmpeg_runs, transcribe_calls, engine_call, normalized_language>>

----------------------------------------------------------------------------
(* main: one iteration of `for raw_line in sys.stdin` up to the pipeline *)

workerVars == <<model, model_name, loads, ensure_calls, ensured>>
pipelineVars == <<normalized_path, tempFiles, ffmpeg_runs, transcribe_calls, engine_call,
                  normalized_language>>

\* line 150: not line (after strip)
IsBlank(line) == line.text = "blank"

\* line 154: json.loads(line) returns
Parses(line) == line.text = "json"

\* line 159: payload.get exists
HasGet(value) == IsDict(value)

\* ValidId without the emptiness test of line 168
ValidIdAnyString(id) == IsStr(id)

\* line 168, negated
ValidId(id) == IsStr(id) /\ id.s # ""

\* ValidAudioPath without the os.path.isfile test
ValidAudioPathAnyString(audio_file_path) == IsStr(audio_file_path)

\* line 173, negated
ValidAudioPath(audio_file_path) == IsStr(audio_file_path) /\ isfile(audio_file_path.s)

\* the iterator yields the next line
Take(line) ==
    /\ pc = "read"
    /\ lines_read < MaxLines
    /\ lines_read' = lines_read + 1
    /\ raw_line' = line
    /\ UNCHANGED env_model

\* lines 150-151
SkipBlank ==
    \E line \in Lines :
       /\ Take(line)
       /\ IsBlank(line)
       /\ UNCHANGED <<pc, stdout, stderr, exit_code, accepted, workerVars, pipelineVars>>

\* lines 153-157
InvalidJson ==
    \E line \in Lines :
       /\ Take(line)
       /\ ~IsBlank(line)
       /\ ~Parses(line)
       /\ write_error("Ignoring invalid JSON payload")
       /\ UNCHANGED <<pc, stdout, exit_code, accepted, workerVars, pipelineVars>>

\* line 159 on a value without .get: AttributeError leaves main
NotAnObject ==
    \E line \in Lines :
       /\ Take(line)
       /\ ~IsBlank(line)
       /\ Parses(line)
       /\ ~HasGet(line.value)
       /\ Crash(stderr)
       /\ UNCHANGED <<stdout, accepted, workerVars, pipelineVars>>

\* a line whose payload reached line 159 and has an event
Dispatched(line) == ~IsBlank(line) /\ Parses(line) /\ HasGet(line.value)

\* lines 160-161, then the process ends with status 0
Shutdown ==
    \E line \in Lines :
       /\ Take(line)
       /\ Dispatched(line)
       /\ Get(line.value, "event") = Str("shutdown")
       /\ ExitClean
       /\ UNCHANGED <<stdout, stderr, accepted, workerVars, pipelineVars>>

\* lines 163-165
UnsupportedEvent ==
    \E line \in Lines :
       /\ Take(line)
       /\ Dispatched(line)
       /\ Get(line.value, "event") # Str("shutdown")
       /\ Get(line.value, "event") # Str("transcribe")
       /\ write_error("Ignoring unsupported event: " \o PyStr(Get(line.value, "event")))
       /\ UNCHANGED <<pc, stdout, exit_code, accepted, workerVars, pipelineVars>>

IsTranscribe(line) == Dispatched(line) /\ Get(line.value, "event") = Str("transcribe")

\* lines 167-170
InvalidRequestId ==
    \E line \in Lines :
       /\ Take(line)
       /\ IsTranscribe(line)
       /\ ~ValidId(Get(line.value, "id"))
       /\ write_error("Ignoring transcription request without valid id")
       /\ UNCHANGED <<pc, stdout, exit_code, accepted, workerVars, pipelineVars>>

\* lines 172-182
InputNotFound ==
    \E line \in Lines :
       /\ Take(line)
       /\ IsTranscribe(line)
       /\ ValidId(Get(line.value, "id"))
       /\ ~ValidAudioPath(Get(line.value, "audioFilePath"))
       /\ accepted' = Append(accepted, Get(line.value, "id").s)
       /\ write_event(ResultError(Get(line.value, "id").s,
             "Input file not found: " \o PyStr(Get(line.value, "audioFilePath"))))
       /\ UNCHANGED <<pc, stderr, exit_code, workerVars, pipelineVars>>

\* lines 184-185: the call of worker.transcribe_file
BeginTranscribe ==
    \E line \in Lines :
       /\ Take(line)
       /\ IsTranscribe(line)
       /\ ValidId(Get(line.value, "id"))
       /\ ValidAudioPath(Get(line.value, "audioFilePath"))
       /\ accepted' = Append(accepted, Get(line.value, "id").s)
       /\ pc' = "ensure"
       /\ UNCHANGED <<stdout, stderr, exit_code, workerVars, pipelineVars>>

\* sys.stdin is exhausted: main returns, the process ends with status 0
EndOfInput ==
    /\ pc = "read"
    /\ ExitClean
    /\ UNCHANGED <<env_model, raw_line, lines_read, stdout, stderr, accepted,
                   workerVars, pipelineVars>>

----------------------------------------------------------------------------
(* worker.transcribe_file, and the except clause of main (lines 199-207) *)

\* Fail without the write_event of lines 200-207
FailSilently(error) ==
    /\ pc' = "read"
    /\ UNCHANGED <<stdout, stderr, exit_code>>

\* Fail without the except clause of line 199: the exception leaves main
FailUncaught(error) ==
    /\ Crash(stderr)
    /\ UNCHANGED stdout

\* lines 199-207: the failure becomes the response, the loop goes on
Fail(error) ==
    /\ write_event(ResultError(request_id.s, error))
    /\ pc' = "read"
    /\ UNCHANGED <<stderr, exit_code>>

\* lines 190-198
Succeed(text, language) ==
    /\ write_event(ResultOk(request_id.s, text, language))
    /\ pc' = "read"
    /\ UNCHANGED <<stderr, exit_code>>

\* Proceed going from the ensure step straight to the recognition call
ProceedPastNormalizer(next_pc) ==
    /\ pc' = IF next_pc = "normalize" THEN "recognize" ELSE next_pc
    /\ UNCHANGED <<stdout, stderr, exit_code>>

\* the next statement of transcribe_file
Proceed(next_pc) ==
    /\ pc' = next_pc
    /\ UNCHANGED <<stdout, stderr, exit_code>>

\* lines 111-114: ensure_model, the check of self.model, normalize_language
EnsureStep ==
    /\ pc = "ensure"
    /\ \E load_ok \in BOOLEAN :
          /\ ensure_model(Get(payload, "model"), load_ok)
          /\ IF LoadRaises(Get(payload, "model"), load_ok)
             THEN /\ Fail(LoadError)
                  /\ UNCHANGED normalized_language
             ELSE IF model' = None
                  THEN /\ Fail("faster-whisper model is not initialized")
                       /\ UNCHANGED normalized_language
                  ELSE /\ normalized_language' = normalize_language(Get(payload, "language"))
                       /\ Proceed("normalize")
    /\ UNCHANGED <<env_model, raw_line, lines_read, accepted, normalized_path,
                   tempFiles, ffmpeg_runs, transcribe_calls, engine_call>>

\* line 59: the message of the RuntimeError
FfmpegError(returncode_text, ffmpeg_stderr) ==
    "ffmpeg normalization failed (code " \o returncode_text \o "): "
       \o (IF ffmpeg_stderr # "" THEN ffmpeg_stderr ELSE "unknown error")

\* subprocess.run raises when the tool cannot be launched
LaunchError == "[Errno 2] No such file or directory: 'ffmpeg'"

\* line 116: normalize_audio_to_wav (lines 31-62)
NormalizeStep ==
    /\ pc = "normalize"
    /\ ffmpeg_runs' = ffmpeg_runs + 1
    /\ LET destination_path == ffmpeg_runs + 1
       IN \E outcome \in {"converted", "nonzero", "unavailable"} :
             CASE outcome = "converted" ->
                    /\ tempFiles' = tempFiles \cup {destination_path}
                    /\ normalized_path' = destination_path
                    /\ Proceed("recognize")
                    /\ UNCHANGED normalized_language
               [] outcome = "nonzero" ->
                    \E ffmpeg_stderr \in FfmpegStderr :
                       /\ tempFiles' = (tempFiles \cup {destination_path}) \ {destination_path}
                       /\ Fail(FfmpegError("1", ffmpeg_stderr))
                       /\ normalized_language' = None
                       /\ UNCHANGED normalized_path
               [] outcome = "unavailable" ->
                    /\ tempFiles' = tempFiles \cup {destination_path}
                    /\ Fail(LaunchError)
                    /\ normalized_language' = None
                    /\ UNCHANGED normalized_path
    /\ UNCHANGED <<env_model, raw_line, lines_read, accepted, workerVars,
                   transcribe_calls, engine_call>>

RECURSIVE TextParts(_)
\* lines 126-130
TextParts(segments) ==
    IF segments = <<>> THEN <<>>
    ELSE LET part == Strip(Head(segments))
         IN IF part # <<>> THEN <<part>> \o TextParts(Tail(segments))
            ELSE TextParts(Tail(segments))

RECURSIVE Join(_)
\* " ".join(text_parts)
Join(text_parts) ==
    IF text_parts = <<>> THEN <<>>
    ELSE IF Len(text_parts) = 1 THEN Head(text_parts)
    ELSE Head(text_parts) \o <<" ">> \o Join(Tail(text_parts))

\* line 132
Text(segments) == Strip(Join(TextParts(segments)))

\* lines 136-138: language_text or None
LanguageText(language_value) ==
    IF IsStr(language_value) /\ language_value.s # <<>>
    THEN IF Strip(language_value.s) # <<>> THEN Str(Strip(language_value.s)) ELSE None
    ELSE None

EmptyError == "faster-whisper returned empty transcription"
EngineError == "engine failure"

\* lines 139-141
RemoveNormalized == tempFiles' = tempFiles \ {normalized_path}

NoCall == [model |-> None, path |-> 0, language |-> None]

\* lines 118-124: the call of self.model.transcribe
CallEngine ==
    /\ pc = "recognize"
    /\ transcribe_calls' = transcribe_calls + 1
    /\ engine_call' = [model |-> model, path |-> normalized_path,
                       language |-> normalized_language]
    /\ Proceed("engine")
    /\ UNCHANGED <<env_model, raw_line, lines_read, accepted, workerVars,
                   normalized_path, tempFiles, ffmpeg_runs, normalized_language>>

\* leaving the try block of transcribe_file: the finally clause runs
LeaveTry ==
    /\ pc = "engine"
    /\ engine_call' = NoCall
    /\ RemoveNormalized
    /\ normalized_path' = 0
    /\ normalized_language' = None
    /\ UNCHANGED <<env_model, raw_line, lines_read, accepted, workerVars,
                   ffmpeg_runs, transcribe_calls>>

\* self.model.transcribe raises, or the segments generator does (lines 118-130)
Raises(outcome) ==
    /\ LeaveTry
    /\ Fail(EngineError)

EngineRaises == \E outcome \in {"raises", "iteration raises"} : Raises(outcome)

\* Returns without the emptiness check of lines 133-134
ReturnsUnchecked(segments, language_value) ==
    /\ LeaveTry
    /\ Succeed(Text(segments), LanguageText(language_value))

\* the engine answers with segments and info (lines 118-141, 190-207)
Returns(segments, language_value) ==
    /\ LeaveTry
    /\ IF Text(segments) = <<>>
       THEN Fail(EmptyError)
       ELSE Succeed(Text(segments), LanguageText(language_value))

EngineReturns ==
    \E segments \in SegmentLists, language_value \in InfoLanguages :
       Returns(segments, language_value)

----------------------------------------------------------------------------

Init ==
    /\ pc = "start"
    /\ env_model \in EnvModels
    /\ model = None
    /\ model_name = None
    /\ raw_line = NoLine
    /\ normalized_path = 0
    /\ stdout = <<>>
    /\ stderr = <<>>
    /\ exit_code = NotExited
    /\ tempFiles = {}
    /\ lines_read = 0
    /\ accepted = <<>>
    /\ loads = 0
    /\ ensure_calls = 0
    /\ ensured = <<>>
    /\ ffmpeg_runs = 0
    /\ transcribe_calls = 0
    /\ engine_call = NoCall
    /\ normalized_language = None

Next ==
    \/ WorkerInit
    \/ EmitReady
    \/ SkipBlank
    \/ InvalidJson
    \/ NotAnObject
    \/ Shutdown
    \/ UnsupportedEvent
    \/ InvalidRequestId
    \/ InputNotFound
    \/ BeginTranscribe
    \/ EndOfInput
    \/ EnsureStep
    \/ NormalizeStep
    \/ CallEngine
    \/ EngineRaises
    \/ EngineReturns

Spec == Init /\ [][Next]_vars

----------------------------------------------------------------------------
(* One request with an arbitrary language tag, from its acceptance up to the
   engine call *)

\* characters of the language tags: blank, hyphen, and the letters of "auto"
TagChars == {" ", "-", "A", "a", "u", "t", "o"}

EnUS == <<"e", "n", "-", "U", "S">>

\* payload.get("language"): absent, no string, or a string
Tags ==
    {None, Num, Str(EnUS)}
       \cup {Str(tag) : tag \in UNION {[1..n -> TagChars] : n \in 0..MaxTagLen}}

\* the worker is ready and has accepted its first request, which names no
\* model and carries the language tag
LanguageInit ==
    /\ pc = "ensure"
    /\ env_model = small
    /\ model = Handle(small)
    /\ model_name = Str(small)
    /\ \E tag \in Tags :
          raw_line = Line("json", Dict(Str("transcribe"), Str("r2"), Str("/a.wav"), tag, None))
    /\ normalized_path = 0
    /\ stdout = <<ReadyEvent>>
    /\ stderr = <<>>
    /\ exit_code = NotExited
    /\ tempFiles = {}
    /\ lines_read = 1
    /\ accepted = <<"r2">>
    /\ loads = 1
    /\ ensure_calls = 1
    /\ ensured = <<small>>
    /\ ffmpeg_runs = 0
    /\ transcribe_calls = 0
    /\ engine_call = NoCall
    /\ normalized_language = None

LanguageNext ==
    \/ EnsureStep
    \/ NormalizeStep
    \/ CallEngine

LanguageSpec == LanguageInit /\ [][LanguageNext]_vars

----------------------------------------------------------------------------
(* Vocabulary of the properties *)

IdStrings == {"r1", "r2"}

\* a request is being processed
InFlight == pc \in {"ensure", "normalize", "recognize", "engine"}

\* this step takes a line from the input; raw_line' is that line
ReadsLine == lines_read' = lines_read + 1

IsJsonObject(line) == line.text = "json" /\ line.value.t = "dict"

\* a transcribe line that carries a non-empty string id
IdentifiedTranscribe(line) ==
    /\ IsJsonObject(line)
    /\ line.value.event = Str("transcribe")
    /\ line.value.id.t = "str"
    /\ line.value.id.s # ""

\* number of result lines on the output channel that carry id
Answers(id) ==
    Cardinality({i \in DOMAIN stdout : stdout[i].event = "result" /\ stdout[i].id = id})

\* number of identified transcribe lines read that carry id
Requests(id) == Cardinality({i \in DOMAIN accepted : accepted[i] = id})

LastOut == stdout[Len(stdout)]

----------------------------------------------------------------------------
(* C1: every transcribe line with a valid non-empty string id that is read
   gets exactly one result line with that id, whatever the outcome: when a
   line is taken from the input every earlier identified request has its one
   result, and in every state the results per id number the identified
   requests per id, less the one request still being processed. *)
C1_ExactlyOneResult ==
    [][ /\ ReadsLine =>
             /\ \A id \in IdStrings : Answers(id) = Requests(id)
             /\ accepted' = IF IdentifiedTranscribe(raw_line')
                            THEN Append(accepted, raw_line'.value.id.s)
                            ELSE accepted
        /\ ~ReadsLine => accepted' = accepted
        /\ \A id \in IdStrings :
              Answers(id)' = Requests(id)'
                 - (IF InFlight' /\ request_id'.s = id THEN 1 ELSE 0) ]_vars

\* two requests with the same id were answered, one with a failure and one
\* with a transcript
C1_Witness ==
    /\ pc = "read"
    /\ accepted = <<"r1", "r1">>
    /\ Len(stdout) = 3
    /\ stdout[2].ok = FALSE
    /\ stdout[2].error = EngineError
    /\ stdout[3].ok = TRUE
    /\ Answers("r1") = 2

----------------------------------------------------------------------------
(* C2: a failure raised inside the pipeline for an identified request (model
   load, normalization, engine exception, empty result) becomes one ok:false
   result carrying that failure's message and the request's id; the step that
   ends the request leaves the loop waiting for the next line and the process
   running. *)
C2_PerRequestIsolation ==
    [][ (InFlight /\ ~InFlight') =>
           /\ pc' = "read"
           /\ exit_code' = NotExited
           /\ stderr' = stderr
           /\ Len(stdout') = Len(stdout) + 1
           /\ SubSeq(stdout', 1, Len(stdout)) = stdout
           /\ LastOut'.event = "result"
           /\ LastOut'.id = request_id.s
           /\ pc = "ensure" =>
                 /\ LastOut'.ok = FALSE
                 /\ LastOut'.error = LoadError
           /\ pc = "normalize" =>
                 /\ LastOut'.ok = FALSE
                 /\ LastOut'.error \in
                       {LaunchError} \cup {FfmpegError("1", e) : e \in FfmpegStderr}
           /\ (\E outcome \in {"raises", "iteration raises"} : Raises(outcome)) =>
                 /\ LastOut'.ok = FALSE
                 /\ LastOut'.error = EngineError
           /\ (pc = "engine" /\ LastOut'.ok = FALSE) =>
                 LastOut'.error \in {EngineError, EmptyError} ]_vars

\* a request failed on its model load and the next request was served
C2_Witness ==
    /\ pc = "read"
    /\ exit_code = NotExited
    /\ Len(stdout) = 3
    /\ stdout[2].ok = FALSE
    /\ stdout[2].error = LoadError
    /\ stdout[3].ok = TRUE

----------------------------------------------------------------------------
(* C3: every line that parses as JSON but is neither a transcribe nor a
   shutdown request (an object with another or no event, or a value that is
   no object) is logged and skipped: no output, the loop goes on; and the
   only line that ends the loop is a shutdown event. *)
C3_NonRequestsSkipped ==
    [][ /\ (/\ ReadsLine
            /\ raw_line'.text = "json"
            /\ ~(/\ raw_line'.value.t = "dict"
                 /\ raw_line'.value.event \in {Str("transcribe"), Str("shutdown")})) =>
              /\ stdout' = stdout
              /\ Len(stderr') = Len(stderr) + 1
              /\ pc' = "read"
              /\ exit_code' = NotExited
        /\ (ReadsLine /\ pc' = "exit") =>
              /\ IsJsonObject(raw_line')
              /\ raw_line'.value.event = Str("shutdown") ]_vars

----------------------------------------------------------------------------
\* a transcribe event without a usable id
UnidentifiedTranscribe(line) ==
    /\ IsJsonObject(line)
    /\ line.value.event = Str("transcribe")
    /\ ~(line.value.id.t = "str" /\ line.value.id.s # "")

\* the step wrote no output, left the pipeline alone and the loop running
Swallowed ==
    /\ stdout' = stdout
    /\ pc' = "read"
    /\ exit_code' = NotExited
    /\ UNCHANGED <<model, model_name, loads, ensure_calls, ffmpeg_runs,
                   tempFiles, transcribe_calls, accepted>>

\* the step wrote one line to the error channel
Diagnosed(message) == stderr' = Append(stderr, message)

(* C4, as stated: a line that is not valid JSON, and a transcribe event whose
   id is missing, not a string or empty, each write a diagnostic, write no
   output, do not invoke the pipeline and leave the loop running. *)
C4_AsStated ==
    [][ (ReadsLine /\ (raw_line'.text # "json" \/ UnidentifiedTranscribe(raw_line'))) =>
           /\ Len(stderr') = Len(stderr) + 1
           /\ Swallowed ]_vars

(* C4, amended: a non-blank line that is not valid JSON, and a transcribe
   event whose id is missing, not a string or empty, each write a diagnostic,
   write no output, do not invoke the pipeline and leave the loop running; a
   blank line is skipped the same way but without any diagnostic. *)
C4_ViolationsSwallowed ==
    [][ /\ (ReadsLine /\ raw_line'.text = "garbage") =>
              /\ Diagnosed("Ignoring invalid JSON payload")
              /\ Swallowed
        /\ (ReadsLine /\ UnidentifiedTranscribe(raw_line')) =>
              /\ Diagnosed("Ignoring transcription request without valid id")
              /\ Swallowed
        /\ (ReadsLine /\ raw_line'.text = "blank") =>
              /\ stderr' = stderr
              /\ Swallowed ]_vars

\* an invalid line and a transcribe event with a bad id were both swallowed
C4_Witness ==
    /\ pc = "read"
    /\ stdout = <<ReadyEvent>>
    /\ stderr = <<"Ignoring invalid JSON payload",
                  "Ignoring transcription request without valid id">>
    /\ UnidentifiedTranscribe(raw_line)
    /\ raw_line.value.id = Str("")

----------------------------------------------------------------------------
IsShutdown(line) == IsJsonObject(line) /\ line.value.event = Str("shutdown")

(* C5: a shutdown event is read only between requests; it ends the loop with
   exit status 0, every identified request read before it already has its
   result, and once the process has ended no line is read and nothing is
   written. *)
C5_CleanShutdown ==
    [][ /\ (ReadsLine /\ IsShutdown(raw_line')) =>
              /\ pc = "read"
              /\ \A id \in IdStrings : Answers(id) = Requests(id)
              /\ pc' = "exit"
              /\ exit_code' = 0
              /\ stdout' = stdout
        /\ IsShutdown(raw_line') => (pc' = "exit" /\ exit_code' = 0)
        /\ pc = "exit" => UNCHANGED <<lines_read, stdout, exit_code>> ]_vars

\* a request was answered, then shutdown ended the process
C5_Witness ==
    /\ pc = "exit"
    /\ exit_code = 0
    /\ IsShutdown(raw_line)
    /\ accepted = <<"r2">>
    /\ Answers("r2") = 1

----------------------------------------------------------------------------
ReadyCount == Cardinality({i \in DOMAIN stdout : stdout[i] = ReadyEvent})

(* C6: the ready line is written at most once, and exactly once in a run
   whose startup succeeded; it is the first line of the output; it is written
   only after the initial model load has succeeded; no input line is read
   before it. *)
C6_ReadyOnceFirst ==
    /\ ReadyCount <= 1
    /\ stdout # <<>> => stdout[1] = ReadyEvent
    /\ ReadyCount = 1 => (model # None /\ model_name # None /\ loads >= 1)
    /\ lines_read > 0 => ReadyCount = 1
    /\ (model # None /\ pc \notin {"start", "constructed"}) => ReadyCount = 1

\* ready is the only output and no line has been read yet
C6_Witness ==
    /\ pc = "read"
    /\ stdout = <<ReadyEvent>>
    /\ lines_read = 0
    /\ model = Handle(env_model)
    /\ loads = 1

----------------------------------------------------------------------------
(* C7: when the engine import or the initial model load fails, the process
   ends with a non-zero status after a diagnostic on the error channel;
   nothing is written to the output channel and no input line is read. *)
C7_StartupFailure ==
    /\ model = None => pc \in {"start", "exit"}
    /\ (pc = "exit" /\ model = None) =>
          /\ exit_code \notin {NotExited, 0}
          /\ stderr # <<>>
          /\ stdout = <<>>
          /\ lines_read = 0
          /\ raw_line = NoLine

\* the initial load was attempted and failed
C7_Witness ==
    /\ pc = "exit"
    /\ model = None
    /\ loads = 1
    /\ exit_code = 1
    /\ stderr = <<Traceback>>

----------------------------------------------------------------------------
WellFormed(e) ==
    e.event = "result" =>
       IF e.ok
       THEN /\ DOMAIN e = {"event", "id", "ok", "text", "language"}
            /\ Strip(e.text) # <<>>
       ELSE DOMAIN e = {"event", "id", "ok", "error"}

AllBlank(segments) ==
    \A i \in DOMAIN segments : \A j \in DOMAIN segments[i] : segments[i][j] = " "

BlankSegmentLists == {l \in SegmentLists : AllBlank(l)}

(* C8: every result line has ok=true with a text that is non-empty after
   trimming and no error, or ok=false with an error and neither text nor
   language; and when the engine's segments are all empty or whitespace-only
   (or there is none) the response is ok:false with the empty-transcription
   message. *)
C8_ResultShape ==
    [][ /\ stdout' # stdout => \A i \in DOMAIN stdout' : WellFormed(stdout'[i])
        /\ pc = "engine" =>
              \A segments \in BlankSegmentLists, language_value \in InfoLanguages :
                 Returns(segments, language_value) =>
                    LastOut' = [event |-> "result", id |-> request_id.s, ok |-> FALSE,
                               error |-> "faster-whisper returned empty transcription"] ]_vars

\* one request got the empty-transcription failure, another a two-part text
C8_Witness ==
    /\ Len(stdout) = 3
    /\ stdout[2].ok = FALSE
    /\ stdout[2].error = EmptyError
    /\ stdout[3].ok = TRUE
    /\ stdout[3].text = <<"a", " ", "a">>

----------------------------------------------------------------------------
BadAudioPath(line) ==
    /\ IdentifiedTranscribe(line)
    /\ ~(line.value.audioFilePath.t = "str" /\ isfile(line.value.audioFilePath.s))

(* C9: a transcribe event with a valid id whose audioFilePath is missing, not
   a string or names no existing file is answered at once with ok:false and
   the error "Input file not found: <audioFilePath>", and the pipeline is not
   touched: no load even when another model is named, resident model and name
   unchanged, no temp file, no run of the conversion tool. *)
C9_InputNotFound ==
    [][ (ReadsLine /\ BadAudioPath(raw_line')) =>
           /\ stdout' = Append(stdout,
                 [event |-> "result", id |-> raw_line'.value.id.s, ok |-> FALSE,
                  error |-> "Input file not found: "
                               \o PyStr(raw_line'.value.audioFilePath)])
           /\ pc' = "read"
           /\ UNCHANGED <<model, model_name, loads, ensure_calls, ffmpeg_runs,
                          tempFiles, transcribe_calls, normalized_path, stderr,
                          exit_code>> ]_vars

\* a request with a missing file named a model that is not resident
C9_Witness ==
    /\ pc = "read"
    /\ BadAudioPath(raw_line)
    /\ raw_line.value.audioFilePath = Str("/missing.wav")
    /\ raw_line.value.model = Str(large)
    /\ model_name = Str(small)
    /\ LastOut = ResultError("r1", "Input file not found: /missing.wav")
    /\ loads = 1

----------------------------------------------------------------------------
\* the argument of the ensure_model call this step makes
Requested == IF pc = "start" THEN Str(env_model) ELSE raw_line.value.model

CallsEnsure == ensure_calls' = ensure_calls + 1

Named(requested) == requested.t = "str" /\ Strip(requested.s) # <<>>

(* C10: ensure_model called with a name that equals, after trimming, the name
   of the resident model performs no load, and called with another name
   performs exactly one load. With the default model "small": after two
   requests naming "small" and "small" one load has happened in total, after
   "small" and "large" two. *)
C10_LoadCachedByName ==
    [][ /\ (CallsEnsure /\ Named(Requested)) =>
              loads' = loads + (IF model_name = Str(Strip(Requested.s)) THEN 0 ELSE 1)
        /\ ~CallsEnsure => loads' = loads
        /\ (env_model' = small /\ ensure_calls' = 3 /\ ensured' = <<small, small>>) =>
              loads' = 1
        /\ (env_model' = small /\ ensure_calls' = 3 /\ ensured' = <<small, large>>) =>
              loads' = 2 ]_vars

\* the default model is "small" and two requests named "small"
C10_Witness ==
    /\ env_model = small
    /\ ensure_calls = 3
    /\ ensured = <<small, small>>
    /\ loads = 1
    /\ Len(stdout) = 3
    /\ stdout[2].ok /\ stdout[3].ok

----------------------------------------------------------------------------
\* the worker is constructed and the process has not ended
Started == pc \in {"constructed", "read", "ensure", "normalize", "recognize", "engine"}

\* the handle is a loaded model and the name is the one it was loaded with
HandleMatchesName ==
    /\ model # None
    /\ IsStr(model_name)
    /\ model = Handle(model_name.s)

\* the ensure step of a request needed a load and the load did not succeed
LoadFailed ==
    /\ pc = "ensure"
    /\ loads' = loads + 1
    /\ model' # Handle(Resolve(raw_line.value.model))

\* the request in the ensure step resolves to the resident model
NamesResident == pc = "ensure" /\ model_name = Str(Resolve(raw_line.value.model))

(* C11: after startup the resident handle is always a loaded model and the
   recorded name is the name it was loaded with. When a load triggered by a
   request fails, handle and name are exactly what they were, the request is
   answered with ok:false, and a request resolving to the resident model is
   served by it without a load. *)
C11_AtomicReplacement ==
    /\ [](Started => HandleMatchesName)
    /\ [][ /\ LoadFailed =>
                 /\ model' = model
                 /\ model_name' = model_name
                 /\ stdout' = Append(stdout, ResultError(request_id.s, LoadError))
                 /\ pc' = "read"
           /\ (NamesResident /\ pc' # "ensure") =>
                 /\ loads' = loads
                 /\ model' = model
                 /\ model_name' = model_name
                 /\ pc' = "normalize" ]_vars

\* the load of "large" failed, and the next request, naming the resident
\* "small", was served without a load
C11_Witness ==
    /\ env_model = small
    /\ ensure_calls = 3
    /\ ensured = <<large, small>>
    /\ loads = 2
    /\ model = Handle(small)
    /\ model_name = Str(small)
    /\ Len(stdout) = 3
    /\ stdout[2] = ResultError("r1", LoadError)
    /\ stdout[3].ok

----------------------------------------------------------------------------
\* the loop is waiting to read the next input line
AwaitingLine == pc = "read"

(* C12: the normalized-audio temp file never outlives the request that
   created it: once normalization has returned a path the file is deleted
   however recognition exits, so whenever the loop is waiting to read the
   next input line no temp file created by the worker exists. *)
C12_NoTempFileOutlivesRequest ==
    /\ AwaitingLine => tempFiles = {}
    /\ InFlight => tempFiles \subseteq {normalized_path}

----------------------------------------------------------------------------
\* the result lines of the output channel, in order
Results == LET IsResult(event) == event.event = "result"
           IN SelectSeq(stdout, IsResult)

\* the ids of the result lines, in order
ResultIds == [i \in DOMAIN Results |-> Results[i].id]

\* the identified requests that are answered: all but the one in flight
Answered ==
    IF InFlight THEN SubSeq(accepted, 1, Len(accepted) - 1) ELSE accepted

(* C13: processing is sequential and FIFO: at most one request is in flight,
   no input line is read while a request is being processed, and the result
   lines appear on the output channel in the order in which the identified
   transcribe lines that caused them appeared on the input channel. *)
C13_SequentialFifo ==
    /\ [](/\ ResultIds = Answered
          /\ InFlight => /\ accepted # <<>>
                         /\ accepted[Len(accepted)] = request_id.s)
    /\ [][ /\ InFlight => ~ReadsLine
           /\ ReadsLine => ResultIds = accepted ]_vars

\* two requests with different ids were read and answered in that order
C13_Witness ==
    /\ pc = "read"
    /\ accepted = <<"r1", "r2">>
    /\ ResultIds = <<"r1", "r2">>
    /\ stdout[2].ok
    /\ ~stdout[3].ok

----------------------------------------------------------------------------
\* normalize_audio_to_wav raised: the request leaves the normalize step answered
NormalizerFails == pc = "normalize" /\ pc' = "read"

(* C14: when the Audio Normalizer fails, because the conversion tool exits
   non-zero or because it is unavailable and launching it raises, no temp
   file is left behind: the file created for the call is removed before the
   error propagates, and the request is answered with ok:false. *)
C14_NormalizerFailureCleansUp ==
    [][ NormalizerFails =>
           /\ tempFiles' = tempFiles
           /\ Len(stdout') = Len(stdout) + 1
           /\ LastOut'.event = "result"
           /\ LastOut'.id = request_id.s
           /\ ~LastOut'.ok ]_vars

----------------------------------------------------------------------------
\* the request in the ensure step names a model other than the resident one
NamesOtherModel ==
    /\ Named(raw_line.value.model)
    /\ model_name # Str(Strip(raw_line.value.model.s))

\* the name the request in the ensure step stands for: the trimmed model
\* field, or the worker-wide default when the field names nothing
Wanted ==
    IF Named(raw_line.value.model) THEN Strip(raw_line.value.model.s)
    ELSE Strip(env_model)

ModelUntouched == model' = model /\ model_name' = model_name /\ loads' = loads

\* C15 as stated: a request that names no other model, a request without a
\* model or with a blank one included, leaves the resident model alone
C15_AsStated ==
    [][ (pc = "ensure" /\ ~NamesOtherModel) => ModelUntouched ]_vars

(* C15: across any sequence of requests the resident model is replaced only by
   a request that stands for a model other than the resident one, where a
   request whose model field is absent, not a string or blank stands for the
   default model: a request standing for the resident model leaves handle and
   name unchanged and triggers no load, and so does every step that is not
   the ensure step of a request. *)
C15_ReplacedOnlyOnOtherModel ==
    [][ /\ (pc = "ensure" /\ model_name = Str(Wanted)) => ModelUntouched
        /\ (Started /\ pc # "ensure") => ModelUntouched
        /\ (Started /\ (model' # model \/ model_name' # model_name)) =>
              /\ model_name # Str(Wanted)
              /\ model' = Handle(Wanted)
              /\ model_name' = Str(Wanted)
              /\ loads' = loads + 1 ]_vars

\* "large" replaced the default "small", and the next request, naming
\* " large", left it resident without a load
C15_Witness ==
    /\ env_model = small
    /\ ensure_calls = 3
    /\ ensured = <<large, large>>
    /\ raw_line.value.model = Str(<<" ">> \o large)
    /\ loads = 2
    /\ model = Handle(large)
    /\ pc = "normalize"

----------------------------------------------------------------------------
\* the worker-wide default model name
DefaultModel == Strip(env_model)

\* the request being processed has a model field that is absent, not a
\* string or blank
NamesNoModel == InFlight /\ ~Named(raw_line.value.model)

\* this step writes the ok:true result of the request being processed
AnswersOk ==
    /\ InFlight
    /\ pc' = "read"
    /\ LastOut'.event = "result"
    /\ LastOut'.ok

(* C16: a request whose model field is absent, not a string or blank is
   resolved to the worker-wide default model: when its ensure step succeeds,
   and when it has been processed successfully, the resident model is the
   default model, whatever model was resident before the request. *)
C16_DefaultModelFallback ==
    [][ /\ (NamesNoModel /\ pc = "ensure" /\ pc' = "normalize") =>
              /\ ensured'[Len(ensured')] = DefaultModel
              /\ model' = Handle(DefaultModel)
              /\ model_name' = Str(DefaultModel)
        /\ (NamesNoModel /\ AnswersOk) =>
              /\ model' = Handle(DefaultModel)
              /\ model_name' = Str(DefaultModel) ]_vars

\* "large" was resident, a request whose model field is no string was
\* processed successfully, and the default "small" is resident
C16_Witness ==
    /\ env_model = small
    /\ pc = "read"
    /\ ensure_calls = 3
    /\ ensured = <<large, small>>
    /\ raw_line.value.model = Num
    /\ loads = 3
    /\ model = Handle(small)
    /\ model_name = Str(small)
    /\ stdout[2].ok
    /\ stdout[3].ok

----------------------------------------------------------------------------
\* the conversion tool is invoked in this step
RunsTool == ffmpeg_runs' # ffmpeg_runs

\* the engine's recognition call is made in this step
CallsRecognition == transcribe_calls' # transcribe_calls

\* the model the request being processed stands for is the resident one
EnsuredForRequest ==
    /\ model = Handle(Resolve(raw_line.value.model))
    /\ model_name = Str(Resolve(raw_line.value.model))

(* C17: the pipeline steps run in the order ensure model, language
   normalization, audio normalization, recognition, each only if the one
   before succeeded: a failed model load invokes no conversion tool and
   creates no temp file, a failed audio normalization invokes no recognition
   call, and recognition is invoked on the model resident after the request's
   ensure step, with the path the normalizer returned for this request and
   the normalized language. *)
C17_PipelineOrder ==
    [][ /\ (pc = "ensure" /\ pc' = "read") =>
              /\ ~RunsTool /\ ~CallsRecognition
              /\ tempFiles' = tempFiles
        /\ (pc = "normalize" /\ pc' = "read") => ~CallsRecognition
        /\ RunsTool =>
              /\ pc = "normalize"
              /\ ffmpeg_runs' = ffmpeg_runs + 1
              /\ EnsuredForRequest
              /\ normalized_language = normalize_language(raw_line.value.language)
              /\ ~CallsEnsure /\ ~CallsRecognition
        /\ CallsRecognition =>
              /\ pc = "recognize"
              /\ transcribe_calls' = transcribe_calls + 1
              /\ EnsuredForRequest
              /\ normalized_path = ffmpeg_runs
              /\ normalized_path \in tempFiles
              /\ engine_call' = [model |-> model, path |-> normalized_path,
                                 language |-> normalize_language(raw_line.value.language)]
              /\ ~CallsEnsure /\ ~RunsTool
        /\ CallsEnsure => (~RunsTool /\ ~CallsRecognition)
        /\ (InFlight' /\ pc' # "ensure") => EnsuredForRequest' ]_vars

\* the load for the first request failed and the tool never ran for it; the
\* conversion for the second failed and the engine was never called
C17_Witness ==
    /\ pc = "read"
    /\ Len(stdout) = 3
    /\ stdout[2] = ResultError("r1", LoadError)
    /\ stdout[3] = ResultError("r1", FfmpegError("1", ""))
    /\ loads = 2
    /\ ffmpeg_runs = 1
    /\ transcribe_calls = 0
    /\ tempFiles = {}

----------------------------------------------------------------------------
\* the language field of the request being processed
Tag == raw_line.value.language

\* the tag of the request is `chars` exactly
TagIs(chars) == IsStr(Tag) /\ Tag.s = chars

Auto == <<"a", "u", "t", "o">>

\* missing, not a string, empty or whitespace-only
NoTag == ~IsStr(Tag) \/ \A i \in DOMAIN Tag.s : Tag.s[i] = " "

\* r is the primary subtag of t: the part of t before its first hyphen
IsPrimarySubtag(r, t) ==
    /\ Len(r) <= Len(t)
    /\ r = SubSeq(t, 1, Len(r))
    /\ \A i \in DOMAIN r : r[i] # "-"
    /\ Len(r) = Len(t) \/ t[Len(r) + 1] = "-"

\* the engine is called in this step
EngineCalled == pc = "recognize" /\ pc' = "engine"

\* C18 as stated: only the tag "auto" itself, besides the missing and blank
\* ones, means null, and every other tag is lower-cased and cut at its first
\* hyphen as it stands
C18_AsStated ==
    [][ EngineCalled =>
           IF NoTag \/ TagIs(Auto)
           THEN engine_call'.language = None
           ELSE /\ IsStr(engine_call'.language)
                /\ IsPrimarySubtag(engine_call'.language.s, Lower(Tag.s)) ]_vars

(* C18: a language tag is first trimmed and lower-cased. A missing or
   non-string tag, a tag that is then empty, and a tag that is then "auto"
   (so "AUTO" and " auto " too) are passed to the engine as null; every other
   tag is passed as the part of the trimmed, lower-cased tag before its first
   hyphen, "en-US" as "en". *)
C18_TrimmedLoweredPrimarySubtag ==
    [][ EngineCalled =>
           IF NoTag \/ Lower(Strip(Tag.s)) = Auto
           THEN engine_call'.language = None
           ELSE /\ IsStr(engine_call'.language)
                /\ IsPrimarySubtag(engine_call'.language.s, Lower(Strip(Tag.s)))
                /\ TagIs(EnUS) => engine_call'.language = Str(<<"e", "n">>) ]_vars

\* the engine was called with "en" for the tag "en-US"
C18_Witness ==
    /\ pc = "engine"
    /\ TagIs(EnUS)
    /\ engine_call.language = Str(<<"e", "n">>)
    /\ engine_call.model = Handle(small)
    /\ engine_call.path = 1

----------------------------------------------------------------------------
\* a language field as the claim describes it
LoweredTrimmedNonEmpty(language) ==
    /\ IsStr(language)
    /\ language.s # <<>>
    /\ Strip(language.s) = language.s
    /\ Lower(language.s) = language.s

(* C19: in every ok:true response the language field is null or a
   lower-cased, trimmed, non-empty string. *)
C19_LanguageField ==
    \A i \in DOMAIN stdout :
       (stdout[i].event = "result" /\ stdout[i].ok) =>
          \/ stdout[i].language = None
          \/ LoweredTrimmedNonEmpty(stdout[i].language)

----------------------------------------------------------------------------
\* the input channel is at end-of-file: the loop ends without reading a line
EndOfFile == pc = "read" /\ pc' = "exit" /\ ~ReadsLine

(* C20: end of input without a shutdown event is a clean shutdown: at
   end-of-file in the Ready state the loop ends, the process exits with
   code 0, every identified transcribe request read before has been answered,
   and no temp file remains. *)
C20_EndOfInputIsCleanShutdown ==
    [][ EndOfFile =>
           /\ exit_code' = 0
           /\ stdout' = stdout
           /\ stderr' = stderr
           /\ \A id \in IdStrings : Answers(id) = Requests(id)
           /\ tempFiles' = {} ]_vars

====
